---- MODULE Spec2Model ----
(***************************************************************************)
(* The adaptive PDF compression pipeline of foldr's backend:                *)
(* compressPDF(inputPath, outputPath) of utils/compress.js, in its two      *)
(* multi-strategy revisions ("rev1": six strategies, 60 s timeout,          *)
(* fallback sentinel 'None (Fallback)'; "rev2": five strategies, sentinel   *)
(* 'None').  The filesystem is a map from the request's paths to files;     *)
(* the external tools (which/where, qpdf, gs) are the environment, whose    *)
(* outcomes are chosen nondeterministically.                                *)
(***************************************************************************)
EXTENDS Integers, Sequences, FiniteSets

\* ------------------------------------------------------------------ bounds
\* Largest size (in abstract size units) of an uploaded input file.
MaxSize == 5
\* Number of compressPDF calls in a behaviour: the first upload, then the
\* client uploading a downloaded output again.
MaxRuns == 2
\* Number of file names in a directory that cleanupFiles sweeps.
MaxFiles == 3
\* Largest maxAge of a cleanupFiles call, in the unit file ages are counted in.
MaxAgeUnits == 1

\* ------------------------------------------------------------ the file system
NoFile == [size |-> -1, data |-> "absent"]

File(n, d) == [size |-> n, data |-> d]

\* The content of the uploaded input of the current call.
OrigData == "orig"

\* Sizes a tool may give its output: empty, smaller than, equal to or larger
\* than any input.
CandidateSizes == 0..(MaxSize + 1)

\* What a failed (non-zero exit, killed on timeout) tool leaves at its output
\* path: nothing, or a partial file.  compressPDF never reads such a file, so
\* one size stands for all.
PartialFiles == {NoFile, File(1, "partial")}

InputPath == <<"uploads/in.pdf">>

OutputPath == <<"compressed/out.pdf">>

\* const tempOutput = `${outputPath}.${strategy.name}.tmp`
TempOutput(name) == OutputPath \o <<name, "tmp">>

\* The strategy catalogs of the two revisions, in order.
StrategiesRev1 ==
  << [name |-> "ghostscript_aggressive", tool |-> "ghostscript"],
     [name |-> "qpdf_aggressive",        tool |-> "qpdf"],
     [name |-> "ghostscript_ebook",      tool |-> "ghostscript"],
     [name |-> "ghostscript_printer",    tool |-> "ghostscript"],
     [name |-> "ghostscript_prepress",   tool |-> "ghostscript"],
     [name |-> "qpdf_linearize",         tool |-> "qpdf"] >>

StrategiesRev2 ==
  << [name |-> "qpdf_aggressive",        tool |-> "qpdf"],
     [name |-> "ghostscript_ebook",      tool |-> "ghostscript"],
     [name |-> "ghostscript_printer",    tool |-> "ghostscript"],
     [name |-> "ghostscript_prepress",   tool |-> "ghostscript"],
     [name |-> "qpdf_linearize",         tool |-> "qpdf"] >>

Strategies(v) == IF v = "rev1" THEN StrategiesRev1 ELSE StrategiesRev2

StrategyNames == {StrategiesRev1[k].name : k \in 1..Len(StrategiesRev1)}

Paths == {InputPath, OutputPath} \cup {TempOutput(n) : n \in StrategyNames}

\* fs.existsSync(p)
ExistsSync(f, p) == f[p] # NoFile

\* getFileSize: stats.size, or 0 when statSync throws (no such file).
GetFileSize(f, p) == IF ExistsSync(f, p) THEN f[p].size ELSE 0

\* fs.unlinkSync(p) of an existing file.
UnlinkSync(f, p) == [f EXCEPT ![p] = NoFile]

\* if (fs.existsSync(p)) fs.unlinkSync(p)
UnlinkIfExists(f, p) == IF ExistsSync(f, p) THEN UnlinkSync(f, p) ELSE f

\* fs.renameSync(src, dst) when it succeeds: dst is replaced, src is gone.
RenameSync(f, src, dst) == [f EXCEPT ![dst] = f[src], ![src] = NoFile]

\* fs.copyFileSync(src, dst) when it succeeds: dst is a byte copy of src.
CopyFileSync(f, src, dst) == [f EXCEPT ![dst] = f[src]]

\* ------------------------------------------------------------- result records
\* A compression ratio is the exact fraction num/den; den = 0 is the
\* NaN/Infinity of a division by a zero originalSize.
Zero == [num |-> 0, den |-> 1]

\* ((originalSize - compressedSize) / originalSize) * 100
Reduction(orig, cs) == [num |-> (orig - cs) * 100, den |-> orig]

RatioIs(r, k) == r.den # 0 /\ r.num = k * r.den

\* Mutant: the synthetic best starts as a success.
InitialBestSucceeded(orig) ==
  [success |-> TRUE, outputPath |-> InputPath, originalSize |-> orig,
   compressedSize |-> orig, compressionRatio |-> Zero, strategy |-> "None",
   error |-> "null"]

\* let bestResult = { success: false, outputPath: inputPath, ... }
InitialBest(orig) ==
  [success |-> FALSE, outputPath |-> InputPath, originalSize |-> orig,
   compressedSize |-> orig, compressionRatio |-> Zero, strategy |-> "None",
   error |-> "null"]

\* Mutant: the new best keeps the strategy field of the synthetic best.
NewBestKeepsStrategy(orig, cs, name) ==
  [success |-> TRUE, outputPath |-> TempOutput(name), originalSize |-> orig,
   compressedSize |-> cs, compressionRatio |-> Reduction(orig, cs),
   strategy |-> "None", error |-> "null"]

\* bestResult = { success: true, outputPath: tempOutput, ... }
NewBest(orig, cs, name) ==
  [success |-> TRUE, outputPath |-> TempOutput(name), originalSize |-> orig,
   compressedSize |-> cs, compressionRatio |-> Reduction(orig, cs),
   strategy |-> name, error |-> "null"]

\* The sentinel the fallback reports: 'None (Fallback)' in rev1, 'None' in rev2.
FallbackStrategy(v) == IF v = "rev1" THEN "None (Fallback)" ELSE "None"

\* Mutant: the fallback returns the synthetic best as it is (success: false).
FallbackResultUnchanged(v, orig) == InitialBest(orig)

\* bestResult = { success: true, outputPath: outputPath, ..., compressionRatio: 0, ... }
FallbackResult(v, orig) ==
  [success |-> TRUE, outputPath |-> OutputPath, originalSize |-> orig,
   compressedSize |-> orig, compressionRatio |-> Zero,
   strategy |-> FallbackStrategy(v), error |-> "null"]

\* Mutant: the comparison written <= for <, so that an equal size replaces.
ReplacesOrEqual(cs, best) == cs > 0 /\ cs <= best.compressedSize

\* Mutant: the candidate compared with the original's size, not the running best's.
ReplacesBelowOriginal(cs, best) == cs > 0 /\ cs < best.originalSize

\* The selector's rule: if (compressedSize > 0 && compressedSize < bestResult.compressedSize)
Replaces(cs, best) == cs > 0 /\ cs < best.compressedSize

Min(a, b) == IF a < b THEN a ELSE b

\* ---------------------------------------------------------------------- state
VARIABLES
  variant,        \* which revision of compressPDF runs
  round,          \* number of the current compressPDF call
  fs,             \* the files at the request's paths
  pc,             \* where the call is
  originalSize,   \* const originalSize
  bestResult,     \* let bestResult; the returned value once pc = "returned"
  qpdfAvailable,  \* const qpdfAvailable
  gsAvailable,    \* const gsAvailable
  idx,            \* position of the for-of loop in the catalog
  execOk,         \* whether the awaited strategy command resolved
  probes,         \* tool probes spawned by this call
  execs,          \* strategy commands spawned by this call
  inputAtCall,    \* history: the input file when the call started
  minSeen,        \* history: least of originalSize and the sizes (> 0) that succeeding tools wrote
  finalOp,        \* history: how the file at outputPath was made
  zeroDivisor,    \* history: a ratio was computed with originalSize = 0
  prevNoGain,     \* history: the input is the output of a call that fell back to the copy
  hangs,          \* the subprocess being awaited never exits by itself
  qpdfProbe,      \* history: how the subprocess of the qpdf probe ended
  gsProbe,        \* history: how the subprocess of the gs probe ended
  ran,            \* history: the strategies whose command was spawned
  firstMin,       \* history: the first strategy whose file had the least size seen
  tied,           \* history: a later strategy's file had that same least size
  aborted,        \* the client of the request has gone away
  cfs,            \* the server's disk: the uploads and compressed directories
  req,            \* the POST /compress requests the server is handling
  writers,        \* history: who wrote to each path of the compressed directory
  host,           \* the tools installed on the server
  route,          \* which revision of the /compress route is deployed
  stage,          \* where the route's handler of one followed request is
  sent,           \* how the transfer of the output to the client ended
  sweepRan,       \* the hourly sweep has run since the request was answered
  directory,      \* cleanupFiles: the age of each file of the swept directory
  outside,        \* cleanupFiles: the age of a file in another directory
  maxAge,         \* cleanupFiles: const maxAge
  files,          \* cleanupFiles: const files, the listing readdirSync gave
  fileIdx,        \* cleanupFiles: position of the forEach in files
  sweepPc,        \* cleanupFiles: where the call is
  dirAtCall,      \* history: the directory when cleanupFiles was called
  examined,       \* history: the files statSync was called on
  unlinked        \* history: the files cleanupFiles unlinked

\* The route's handler of one request followed to the end of its files.
rvars == <<stage, sent, sweepRan>>

\* One call of the age-based cleanupFiles followed file by file.
kvars == <<directory, outside, maxAge, files, fileIdx, sweepPc, dirAtCall,
           examined, unlinked>>

lvars == <<rvars, kvars>>

\* The state of the server with requests in flight.
cvars == <<cfs, req, writers, host, route>>

\* The state of one call of compressPDF followed on its own.
svars == <<variant, round, fs, pc, originalSize, bestResult, qpdfAvailable,
           gsAvailable, idx, execOk, probes, execs, inputAtCall, minSeen,
           finalOp, zeroDivisor, prevNoGain, hangs, qpdfProbe, gsProbe, ran,
           firstMin, tied, aborted>>

vars == <<svars, cvars, lvars>>

\* ------------------------------------------------- the server's paths and disk
\* The size of the file each request uploads.
UploadSize == 2

\* The strategy failures followed in a run of the server.
MaxConcFailures == 1

\* The requests in flight together; their ids stand for the uuids that multer
\* and the route draw for them.
Requests == {"A", "B"}

\* req.file.path: multer's destination 'uploads' and filename `${uuidv4()}${extension}`
UploadPath(r) == <<"uploads", r>>

\* outputPath = path.join(compressedDir, `compressed_${fileId}.pdf`)
OutputPathOf(r) == <<"compressed", r>>

\* Mutant: the candidate path made of the strategy's name only.
CandidatePathShared(out, name) == <<"compressed", name, "tmp">>

\* const tempOutput = `${outputPath}.${strategy.name}.tmp`
CandidatePath(out, name) == out \o <<name, "tmp">>

\* path.dirname(p)
Dirname(p) == p[1]

\* The route calls the five-strategy compressPDF.
ConcCatalog == StrategiesRev2

ConcNames == {ConcCatalog[k].name : k \in 1..Len(ConcCatalog)}

ConcPaths ==
  {UploadPath(r) : r \in Requests} \cup {OutputPathOf(r) : r \in Requests}
    \cup {CandidatePath(OutputPathOf(r), n) : r \in Requests, n \in ConcNames}

\* The sizes a strategy's tool can give its candidate: smaller than the
\* upload, or as large.
ConcSizes == {UploadSize - 1, UploadSize}

\* A request the server has not received yet.
NoRequest ==
  [pc |-> "absent", idx |-> 0, execOk |-> FALSE, fails |-> 0,
   best |-> [success |-> FALSE, outputPath |-> <<>>, compressedSize |-> 0,
             strategy |-> "None"]]

\* No request is being followed (the single-call specifications).
ConcIdle ==
  /\ cfs = [p \in ConcPaths |-> NoFile]
  /\ req = [r \in Requests |-> NoRequest]
  /\ writers = [p \in ConcPaths |-> {}]
  /\ host = [qpdf |-> FALSE, gs |-> FALSE]
  /\ route = "none"

\* No route handler is being followed to the end of its files.
RouteIdle ==
  /\ stage = "none"
  /\ sent = "none"
  /\ sweepRan = FALSE

\* The names a swept directory can hold.
FileNames == 1..MaxFiles

\* No name of the directory is taken.
Absent == -1

\* No call of cleanupFiles is being followed.
SweepIdle ==
  /\ directory = [n \in FileNames |-> Absent]
  /\ outside = Absent
  /\ maxAge = 0
  /\ files = <<>>
  /\ fileIdx = 0
  /\ sweepPc = "none"
  /\ dirAtCall = [n \in FileNames |-> Absent]
  /\ examined = {}
  /\ unlinked = {}

InputFiles == {NoFile} \cup {File(n, OrigData) : n \in 0..MaxSize}

EmptyDisk == [p \in Paths |-> NoFile]

\* The state in which compressPDF(inputPath, outputPath) is called on input
\* file `inp`: outputPath is fresh (it holds a new uuid), so nothing is there.
CallState(inp) ==
  /\ fs = [EmptyDisk EXCEPT ![InputPath] = inp]
  /\ inputAtCall = inp
  /\ pc = "start"
  /\ originalSize = 0
  /\ bestResult = InitialBest(0)
  /\ qpdfAvailable = FALSE
  /\ gsAvailable = FALSE
  /\ idx = 0
  /\ execOk = FALSE
  /\ probes = 0
  /\ execs = 0
  /\ minSeen = 0
  /\ finalOp = "none"
  /\ zeroDivisor = FALSE
  /\ hangs = FALSE
  /\ qpdfProbe = "none"
  /\ gsProbe = "none"
  /\ ran = {}
  /\ firstMin = "None"
  /\ tied = FALSE
  /\ aborted = FALSE

Init ==
  /\ ConcIdle
  /\ RouteIdle
  /\ SweepIdle
  /\ variant \in {"rev1", "rev2"}
  /\ round = 1
  /\ prevNoGain = FALSE
  /\ \E inp \in InputFiles : CallState(inp)

\* ------------------------------------------------------------------ actions
Catalog == Strategies(variant)

Strategy == Catalog[idx]

\* Mutant: the skip test without its ghostscript clause.
ToolAvailableQpdfOnly(s) == ~(s.tool = "qpdf" /\ ~qpdfAvailable)

\* Mutant: the skip test inverted, so that a strategy runs when its tool is missing.
ToolAvailableInverted(s) ==
  \/ (s.tool = "qpdf" /\ ~qpdfAvailable)
  \/ (s.tool = "ghostscript" /\ ~gsAvailable)

\* Negation of the loop's skip test:
\* (strategy.tool === 'qpdf' && !qpdfAvailable) || (strategy.tool === 'ghostscript' && !gsAvailable)
ToolAvailable(s) ==
  ~ \/ (s.tool = "qpdf" /\ ~qpdfAvailable)
    \/ (s.tool = "ghostscript" /\ ~gsAvailable)

\* compressPDF up to its first await: the size of the input, the synthetic
\* best, and the spawn of the qpdf probe.
Start ==
  /\ pc = "start"
  /\ originalSize' = GetFileSize(fs, InputPath)
  /\ bestResult' = InitialBest(GetFileSize(fs, InputPath))
  /\ minSeen' = GetFileSize(fs, InputPath)
  /\ probes' = probes + 1
  /\ hangs' \in BOOLEAN
  /\ pc' = "probe_qpdf"
  /\ UNCHANGED <<cvars, lvars, aborted, variant, round, prevNoGain, qpdfProbe, gsProbe, ran, firstMin, tied, fs, qpdfAvailable, gsAvailable, idx, execOk,
                 execs, inputAtCall, finalOp, zeroDivisor>>

\* How the subprocess of a probe (`which qpdf`, `where gs`) can end: found,
\* not found (non-zero exit), or not run at all (spawn error, permission error).
ProbeOutcomes == {"exit0", "exit1", "spawn_error"}

\* Mutant: the probe lets a spawn error through instead of answering false.
IsCommandAvailableRethrows(outcome) ==
  [threw |-> outcome = "spawn_error", value |-> outcome = "exit0"]

\* isCommandAvailable: try { await execAsync(checkCommand); return true }
\* catch (error) { return false }
IsCommandAvailable(outcome) == [threw |-> FALSE, value |-> outcome = "exit0"]

\* isCommandAvailable('qpdf') settles; then the gs probe is spawned.
ProbeQpdf ==
  /\ pc = "probe_qpdf"
  /\ ~hangs
  /\ \E o \in ProbeOutcomes :
       /\ qpdfProbe' = o
       /\ IF IsCommandAvailable(o).threw
          THEN /\ pc' = "raised"
               /\ UNCHANGED <<qpdfAvailable, probes, hangs>>
          ELSE /\ qpdfAvailable' = IsCommandAvailable(o).value
               /\ probes' = probes + 1
               /\ hangs' \in BOOLEAN
               /\ pc' = "probe_gs"
  /\ UNCHANGED <<cvars, lvars, aborted, variant, round, prevNoGain, gsProbe, ran, firstMin, tied, fs,
                 originalSize, bestResult, gsAvailable, idx, execOk, execs,
                 inputAtCall, minSeen, finalOp, zeroDivisor>>

\* isCommandAvailable('gs') settles; the strategy loop begins.
ProbeGs ==
  /\ pc = "probe_gs"
  /\ ~hangs
  /\ \E o \in ProbeOutcomes :
       /\ gsProbe' = o
       /\ IF IsCommandAvailable(o).threw
          THEN /\ pc' = "raised"
               /\ UNCHANGED <<gsAvailable, idx>>
          ELSE /\ gsAvailable' = IsCommandAvailable(o).value
               /\ idx' = 1
               /\ pc' = "loop"
  /\ UNCHANGED <<cvars, lvars, aborted, variant, round, prevNoGain, hangs, qpdfProbe, ran, firstMin,
                 tied, fs, originalSize, bestResult, qpdfAvailable, execOk,
                 probes, execs, inputAtCall, minSeen, finalOp, zeroDivisor>>

\* The loop's `continue` for a strategy whose tool is not available.
SkipStrategy ==
  /\ pc = "loop"
  /\ idx <= Len(Catalog)
  /\ ~ToolAvailable(Strategy)
  /\ idx' = idx + 1
  /\ UNCHANGED <<cvars, lvars, aborted, variant, round, prevNoGain, hangs, qpdfProbe, gsProbe, ran, firstMin, tied, fs, pc, originalSize, bestResult,
                 qpdfAvailable, gsAvailable, execOk, probes, execs,
                 inputAtCall, minSeen, finalOp, zeroDivisor>>

\* execAsync(command) is called for the strategy: its subprocess is spawned.
LaunchStrategy ==
  /\ pc = "loop"
  /\ idx <= Len(Catalog)
  /\ ToolAvailable(Strategy)
  /\ execs' = execs + 1
  /\ ran' = ran \cup {Strategy.name}
  /\ hangs' \in BOOLEAN
  /\ pc' = "exec"
  /\ UNCHANGED <<cvars, lvars, aborted, variant, round, prevNoGain, qpdfProbe, gsProbe, firstMin,
                 tied, fs, originalSize, bestResult, qpdfAvailable,
                 gsAvailable, idx, execOk, probes, inputAtCall, minSeen,
                 finalOp, zeroDivisor>>

\* The tool exits 0, having written nothing, an empty file or a file of any
\* size at tempOutput.
StrategyResolves ==
  /\ pc = "exec"
  /\ ~hangs
  /\ \E w \in {NoFile} \cup {File(n, Strategy.name) : n \in CandidateSizes} :
       /\ fs' = [fs EXCEPT ![TempOutput(Strategy.name)] = w]
       /\ minSeen' = IF w.size > 0 THEN Min(minSeen, w.size) ELSE minSeen
       /\ firstMin' = IF w.size > 0 /\ w.size < minSeen
                      THEN Strategy.name ELSE firstMin
       /\ tied' = IF w.size > 0 /\ w.size < minSeen THEN FALSE
                  ELSE tied \/ (w.size = minSeen /\ firstMin # "None")
  /\ execOk' = TRUE
  /\ pc' = "settled"
  /\ UNCHANGED <<cvars, lvars, aborted, variant, round, prevNoGain, hangs, qpdfProbe, gsProbe, ran,
                 originalSize, bestResult, qpdfAvailable, gsAvailable, idx,
                 probes, execs, inputAtCall, finalOp, zeroDivisor>>

\* execAsync(command, { timeout: 60000 }) in rev1; execAsync(command) in rev2.
HasTimeout(v) == v = "rev1"

\* The tool fails (non-zero exit, spawn error) or is killed at the timeout,
\* having written nothing or a partial file at tempOutput.
StrategyRejects ==
  /\ pc = "exec"
  /\ ~hangs \/ HasTimeout(variant)
  /\ \E w \in PartialFiles :
       fs' = [fs EXCEPT ![TempOutput(Strategy.name)] = w]
  /\ execOk' = FALSE
  /\ hangs' = FALSE
  /\ pc' = "settled"
  /\ UNCHANGED <<cvars, lvars, aborted, variant, round, prevNoGain, qpdfProbe, gsProbe, ran,
                 firstMin, tied, originalSize, bestResult, qpdfAvailable,
                 gsAvailable, idx, probes, execs, inputAtCall, minSeen,
                 finalOp, zeroDivisor>>

\* Mutant: the candidate is unlinked whether or not it became the best.
AfterSelectionDeletesCandidate(f, best, tmp, cs) == UnlinkIfExists(f, tmp)

\* Mutant: the previous best is unlinked without the test that it is not the input.
AfterSelectionUnguarded(f, best, tmp, cs) ==
  IF cs > 0 /\ cs < best.compressedSize
  THEN UnlinkIfExists(f, best.outputPath)
  ELSE UnlinkIfExists(f, tmp)

\* The files after the selector's decision on the candidate at `tmp`.
AfterSelection(f, best, tmp, cs) ==
  IF Replaces(cs, best)
  THEN IF best.outputPath # InputPath /\ ExistsSync(f, best.outputPath)
       THEN UnlinkSync(f, best.outputPath)
       ELSE f
  ELSE UnlinkIfExists(f, tmp)

\* The try block after the await: measure the candidate and select.
EvalCandidate ==
  /\ pc = "settled"
  /\ execOk
  /\ LET tmp == TempOutput(Strategy.name)
         cs  == GetFileSize(fs, tmp)
     IN  /\ fs' = AfterSelection(fs, bestResult, tmp, cs)
         /\ bestResult' = IF Replaces(cs, bestResult)
                          THEN NewBest(originalSize, cs, Strategy.name)
                          ELSE bestResult
         \* rev1 computes `reduction` for every candidate of size > 0
         /\ zeroDivisor' = (zeroDivisor \/
                             (variant = "rev1" /\ cs > 0 /\ originalSize = 0))
  /\ idx' = idx + 1
  /\ pc' = "loop"
  /\ UNCHANGED <<cvars, lvars, aborted, variant, round, prevNoGain, hangs, qpdfProbe, gsProbe, ran, firstMin, tied, originalSize, qpdfAvailable, gsAvailable,
                 execOk, probes, execs, inputAtCall, minSeen, finalOp>>

\* Mutant: the catch block rethrows, so that the failure leaves compressPDF.
CatchStrategyFailureRethrows ==
  /\ pc = "settled"
  /\ ~execOk
  /\ pc' = "raised"
  /\ UNCHANGED <<cvars, lvars, aborted, variant, round, prevNoGain, hangs, qpdfProbe, gsProbe, ran,
                 firstMin, tied, fs, originalSize, bestResult, qpdfAvailable,
                 gsAvailable, idx, execOk, probes, execs, inputAtCall,
                 minSeen, finalOp, zeroDivisor>>

\* The catch block of a strategy: it logs and the loop goes on.
CatchStrategyFailure ==
  /\ pc = "settled"
  /\ ~execOk
  /\ idx' = idx + 1
  /\ pc' = "loop"
  /\ UNCHANGED <<cvars, lvars, aborted, variant, round, prevNoGain, hangs, qpdfProbe, gsProbe, ran, firstMin, tied, fs, originalSize, bestResult, qpdfAvailable,
                 gsAvailable, execOk, probes, execs, inputAtCall, minSeen,
                 finalOp, zeroDivisor>>

LoopDone == pc = "loop" /\ idx > Len(Catalog)

\* Mutant: the path test of the rename branch written with === for !==.
TakesRenameSamePath(best) == best.success /\ best.outputPath = OutputPath

\* if (bestResult.success && bestResult.outputPath !== outputPath)
TakesRename(best) == best.success /\ best.outputPath # OutputPath

\* Mutant: the fallback branch is never taken.
TakesFallbackNever(best) == FALSE

\* else if (!bestResult.success)
TakesFallback(best) == ~TakesRename(best) /\ ~best.success

\* The tail of compressPDF when no filesystem call throws: rename the winner,
\* or copy the input, or neither; then return bestResult.
Finalize ==
  /\ LoopDone
  /\ IF TakesRename(bestResult)
     THEN /\ ExistsSync(fs, bestResult.outputPath)
          /\ fs' = RenameSync(fs, bestResult.outputPath, OutputPath)
          /\ bestResult' = [bestResult EXCEPT !.outputPath = OutputPath]
          /\ finalOp' = "rename"
     ELSE IF TakesFallback(bestResult)
     THEN /\ ExistsSync(fs, InputPath)
          /\ fs' = CopyFileSync(fs, InputPath, OutputPath)
          /\ bestResult' = FallbackResult(variant, originalSize)
          /\ finalOp' = "copy"
     ELSE UNCHANGED <<fs, bestResult, finalOp>>
  /\ pc' = "returned"
  /\ UNCHANGED <<cvars, lvars, aborted, variant, round, prevNoGain, hangs, qpdfProbe, gsProbe, ran, firstMin, tied, originalSize, qpdfAvailable, gsAvailable,
                 idx, execOk, probes, execs, inputAtCall, minSeen, zeroDivisor>>

\* fs.renameSync or fs.copyFileSync throws (its source is missing, the disk is
\* full, ...): nothing catches it, so the promise of compressPDF rejects.  A
\* failed copy leaves no destination file.
FinalizeThrows ==
  /\ LoopDone
  /\ TakesRename(bestResult) \/ TakesFallback(bestResult)
  /\ pc' = "raised"
  /\ UNCHANGED <<cvars, lvars, aborted, variant, round, prevNoGain, hangs, qpdfProbe, gsProbe, ran, firstMin, tied, fs, originalSize, bestResult, qpdfAvailable,
                 gsAvailable, idx, execOk, probes, execs, inputAtCall,
                 minSeen, finalOp, zeroDivisor>>

\* The client uploads the output it was sent as the input of a new request:
\* compressPDF is called on a file with the bytes of the previous output, at
\* fresh paths.
CompressAgain ==
  /\ pc = "returned"
  /\ round < MaxRuns
  /\ ExistsSync(fs, OutputPath)
  /\ round' = round + 1
  /\ LET inp == File(fs[OutputPath].size, OrigData)
     IN  /\ fs' = [EmptyDisk EXCEPT ![InputPath] = inp]
         /\ inputAtCall' = inp
  /\ pc' = "start"
  /\ originalSize' = 0
  /\ bestResult' = InitialBest(0)
  /\ qpdfAvailable' = FALSE
  /\ gsAvailable' = FALSE
  /\ idx' = 0
  /\ execOk' = FALSE
  /\ probes' = 0
  /\ execs' = 0
  /\ minSeen' = 0
  /\ finalOp' = "none"
  /\ zeroDivisor' = FALSE
  /\ prevNoGain' = (finalOp = "copy")
  /\ hangs' = FALSE
  /\ qpdfProbe' = "none"
  /\ gsProbe' = "none"
  /\ ran' = {}
  /\ firstMin' = "None"
  /\ tied' = FALSE
  /\ aborted' = FALSE
  /\ UNCHANGED <<cvars, lvars, variant>>

Next ==
  \/ Start
  \/ ProbeQpdf
  \/ ProbeGs
  \/ SkipStrategy
  \/ LaunchStrategy
  \/ StrategyResolves
  \/ StrategyRejects
  \/ EvalCandidate
  \/ CatchStrategyFailure
  \/ Finalize
  \/ FinalizeThrows
  \/ CompressAgain

Spec == Init /\ [][Next]_vars

\* ------------------------------------------------------------------- claims
Returned == pc = "returned"

\* The call is over: it returned bestResult or its promise rejected.
Terminated == pc \in {"returned", "raised"}

\* The values the code reports for "no compression achieved, original preserved".
NoneSentinels == {"None", "None (Fallback)"}

CatalogNames == {Catalog[k].name : k \in 1..Len(Catalog)}

NoTempFiles == \A n \in StrategyNames : ~ExistsSync(fs, TempOutput(n))

\* C1: whenever compressPDF returns success = true, a file exists at
\* outputPath, made by exactly one of: the rename of the winning candidate
\* (the file is that strategy's output, of the reported size, and is gone from
\* its candidate path), or the copy of the input (the file is the input's bytes).
C1_OutputProduced ==
  (Returned /\ bestResult.success) =>
    /\ ExistsSync(fs, OutputPath)
    /\ bestResult.outputPath = OutputPath
    /\ \/ /\ finalOp = "rename"
          /\ bestResult.strategy \in CatalogNames
          /\ fs[OutputPath] = File(bestResult.compressedSize, bestResult.strategy)
          /\ ~ExistsSync(fs, TempOutput(bestResult.strategy))
       \/ /\ finalOp = "copy"
          /\ bestResult.strategy \notin CatalogNames
          /\ inputAtCall # NoFile
          /\ fs[OutputPath] = inputAtCall

C1_Witness ==
  /\ Returned /\ bestResult.success /\ finalOp = "rename"
  /\ qpdfAvailable /\ gsAvailable
  /\ \E n \in StrategyNames : fs[TempOutput(n)].data = "partial"

\* C2 (result): the returned compressedSize is the least of originalSize and the
\* sizes > 0 written by the strategies that ran and succeeded; a winning
\* strategy is the one whose file has that size, and the ratio is
\* (originalSize - compressedSize) / originalSize * 100.
C2_ResultIsMinimum ==
  Returned =>
    /\ bestResult.compressedSize = minSeen
    /\ bestResult.originalSize = originalSize
    /\ finalOp = "rename" =>
         /\ fs[OutputPath] = File(minSeen, bestResult.strategy)
         /\ bestResult.compressionRatio.den # 0
         /\ bestResult.compressionRatio.num * originalSize =
              (originalSize - minSeen) * 100 * bestResult.compressionRatio.den

\* C2 (rule): the running best is seeded with the original file's size, and a
\* candidate replaces it iff its size is > 0 and strictly below the running best.
C2_ReplacementRule ==
  (pc = "settled" /\ execOk) =>
    LET cs == GetFileSize(fs, TempOutput(Strategy.name))
    IN  /\ (bestResult' # bestResult) <=> (cs > 0 /\ cs < bestResult.compressedSize)
        /\ (bestResult' # bestResult) =>
             (bestResult'.compressedSize = cs /\ bestResult'.strategy = Strategy.name)

C2_Seeded ==
  pc = "probe_qpdf" =>
    /\ ~bestResult.success
    /\ bestResult.compressedSize = GetFileSize(fs, InputPath)

\* C2: compressPDF returns the best of N (result, seed and replacement rule).
C2_BestOfN ==
  /\ [](C2_ResultIsMinimum /\ C2_Seeded)
  /\ [][C2_ReplacementRule]_vars

\* The spec's scenario at scale 1 : 2,000,000: original 5, aggressive-A gives 2,
\* ebook-B gives 3 (not better), result 2 by aggressive-A with ratio 60.
C2_Witness ==
  /\ Returned
  /\ originalSize = 5
  /\ bestResult.compressedSize = 2
  /\ bestResult.strategy = "qpdf_aggressive"
  /\ RatioIs(bestResult.compressionRatio, 60)
  /\ execs >= 2

C4_ImprovementReported ==
  (Returned /\ minSeen < originalSize) =>
    /\ bestResult.success
    /\ bestResult.compressedSize < originalSize
    /\ bestResult.compressedSize > 0
    /\ bestResult.strategy \in CatalogNames
    /\ bestResult.strategy \notin NoneSentinels

C4_Witness ==
  /\ Returned /\ minSeen < originalSize
  /\ bestResult.strategy = "ghostscript_prepress"
  /\ execs > 1

\* C5: after the call is over, the request's files are the unmodified input and
\* the output, present iff the call succeeded; no candidate file remains.
C5_OnlyInputAndOutputRemain ==
  Terminated =>
    /\ fs[InputPath] = inputAtCall
    /\ ExistsSync(fs, OutputPath) <=> (Returned /\ bestResult.success)
    /\ NoTempFiles

\* C6: the candidate file of a strategy whose command failed is deleted before
\* compressPDF returns.
C6_FailedCandidateDeleted ==
  Terminated => \A n \in StrategyNames : fs[TempOutput(n)].data # "partial"

\* C7: called on a missing input, compressPDF yields success = false with an
\* error, creates no output and spawns no subprocess, probe or strategy.
C7_MissingInputFailsAtOnce ==
  inputAtCall = NoFile =>
    /\ probes = 0
    /\ execs = 0
    /\ Terminated =>
         /\ Returned
         /\ ~bestResult.success
         /\ bestResult.error # "null"
         /\ ~ExistsSync(fs, OutputPath)

\* C8: a zero-length input is a fatal input error: no strategy is attempted,
\* no ratio is computed with originalSize = 0, the fallback copy is not made,
\* and the call ends with success = false.
C8_ZeroLengthIsFatal ==
  (inputAtCall # NoFile /\ inputAtCall.size = 0) =>
    /\ execs = 0
    /\ ~zeroDivisor
    /\ finalOp # "copy"
    /\ Returned => ~bestResult.success

\* C9: when the rename or the copy of the finalize step throws, the pipeline
\* reports failure (a rejection counts as the report), no file is at
\* outputPath and the candidate files of the request have been deleted, the
\* winning candidate that could not be renamed included.  (The candidates meant
\* are the files written by strategies that succeeded; what a failed strategy
\* leaves behind is C6.)
C9_FinalizeFailureCleansUp ==
  pc = "raised" =>
    /\ ~ExistsSync(fs, OutputPath)
    /\ \A n \in StrategyNames : fs[TempOutput(n)].data # n

InLoopOrAfter == idx >= 1

\* What the probes answered for the tool a strategy names.
ProbedAvailable(s) == IF s.tool = "qpdf" THEN qpdfAvailable ELSE gsAvailable

\* C11: among candidates of the same least size the strategy earlier in the
\* catalog wins: it is the one reported, its file becomes the output, and the
\* later candidate of that size is deleted; the winner is a function of the
\* sizes the tools wrote, in order.
C11_TieBreakFirstWins ==
  /\ (InLoopOrAfter /\ pc \in {"loop", "exec"} /\ minSeen < originalSize) =>
       /\ bestResult.strategy = firstMin
       /\ \A n \in StrategyNames :
            fs[TempOutput(n)].data = n => n = firstMin
  /\ (Returned /\ minSeen < originalSize) =>
       /\ bestResult.strategy = firstMin
       /\ fs[OutputPath] = File(minSeen, firstMin)
       /\ \A n \in StrategyNames : fs[TempOutput(n)].data # n

C11_Witness ==
  /\ Returned /\ tied
  /\ bestResult.strategy = "ghostscript_ebook"
  /\ bestResult.compressedSize = 2

\* C13: a strategy's failure stops nothing: every catalog strategy whose tool
\* is available is run, whatever became of those before it, and compressPDF
\* does not reject before the loop has gone through the whole catalog.
C13_FailureDoesNotStopTheLoop ==
  /\ InLoopOrAfter =>
       \A k \in 1..Len(Catalog) :
         (k < idx /\ ProbedAvailable(Catalog[k])) => Catalog[k].name \in ran
  /\ Terminated => idx = Len(Catalog) + 1

C13_Witness ==
  /\ Returned
  /\ execs = Len(Catalog)
  /\ fs[TempOutput(Catalog[1].name)].data = "partial"
  /\ bestResult.strategy = Catalog[Len(Catalog)].name

AwaitingSubprocess == pc \in {"probe_qpdf", "probe_gs", "exec"}

\* C14: every wait for a subprocess (a probe, a strategy command) is bounded
\* by a timeout: while compressPDF awaits one, the wait can end.
C14_EveryWaitIsBounded ==
  AwaitingSubprocess =>
    ENABLED (ProbeQpdf \/ ProbeGs \/ StrategyResolves \/ StrategyRejects)

\* C15: compressPDF never deletes, renames or writes the input file: it is
\* not unlinked when the synthetic best (whose outputPath is inputPath) is
\* superseded, and no candidate path or rename target is inputPath.
C15_InputNeverTouched ==
  /\ fs[InputPath] = inputAtCall
  /\ bestResult.success => bestResult.outputPath # InputPath
  /\ OutputPath # InputPath
  /\ \A n \in StrategyNames : TempOutput(n) # InputPath

C15_Witness ==
  /\ pc = "loop"
  /\ bestResult.success
  /\ bestResult.outputPath = TempOutput("qpdf_linearize")
  /\ ExistsSync(fs, InputPath)

\* C19: the availability probe never raises: when its subprocess fails
\* (non-zero exit, spawn or permission error) the answer is false and the
\* pipeline goes on; compressPDF rejects only in its finalize step.
C19_ProbeNeverRaises ==
  /\ qpdfProbe \in {"exit1", "spawn_error"} =>
       (~qpdfAvailable /\ pc # "probe_qpdf")
  /\ gsProbe \in {"exit1", "spawn_error"} =>
       (~gsAvailable /\ pc \notin {"probe_qpdf", "probe_gs"})
  /\ qpdfProbe = "exit0" => qpdfAvailable
  /\ gsProbe = "exit0" => gsAvailable
  /\ pc = "raised" => idx = Len(Catalog) + 1

C19_Witness ==
  /\ Returned
  /\ qpdfProbe = "spawn_error"
  /\ gsProbe = "exit1"

\* C20: a strategy whose tool was probed unavailable is skipped: no command is
\* spawned for it, no candidate file is made for it and it is never the best;
\* the commands spawned are those of the strategies whose tool is available.
C20_UnavailableSkipped ==
  InLoopOrAfter =>
    /\ \A k \in 1..Len(Catalog) :
         ~ProbedAvailable(Catalog[k]) =>
           /\ Catalog[k].name \notin ran
           /\ ~ExistsSync(fs, TempOutput(Catalog[k].name))
           /\ bestResult.strategy # Catalog[k].name
    /\ execs = Cardinality(ran)

C20_Witness ==
  /\ Returned
  /\ qpdfAvailable /\ ~gsAvailable
  /\ bestResult.strategy = "qpdf_linearize"
  /\ execs = 2

\* ------------------------------------------- the single-command qpdf variant
\* compressPDF of src/utils/compress.js: one qpdf command that writes to
\* outputPath itself. It shares the call state of the multi-strategy pipeline;
\* bestResult holds the value it returns.

\* Math.round(a / b) for b > 0: the nearest integer, halves towards +Infinity.
RoundDiv(a, b) == (2 * a + b) \div (2 * b)

\* Math.round(compressionRatio * 10) / 10; NaN and -Infinity (den = 0) stay so.
RoundTenth(r) ==
  IF r.den = 0 THEN r ELSE [num |-> RoundDiv(r.num * 10, r.den), den |-> 10]

\* isQpdfAvailable: try { await execAsync('qpdf --version'); return true }
\* catch (error) { return false }
IsQpdfAvailable(outcome) == [threw |-> FALSE, value |-> outcome = "exit0"]

\* What fallbackCompress returns.
QpdfFallbackResult(orig) ==
  [success |-> TRUE, originalSize |-> orig, compressedSize |-> orig,
   compressionRatio |-> Zero]

\* What compressPDF returns after qpdf has run.
QpdfResult(orig, cs) ==
  [success |-> TRUE, originalSize |-> orig, compressedSize |-> cs,
   compressionRatio |-> RoundTenth(Reduction(orig, cs))]

\* What qpdf can leave at outputPath when it exits with status 0.
QpdfOutputs == {NoFile} \cup {File(n, "qpdf") : n \in CandidateSizes}

QInit ==
  /\ ConcIdle
  /\ RouteIdle
  /\ SweepIdle
  /\ variant = "qpdf"
  /\ round = 1
  /\ prevNoGain = FALSE
  /\ \E inp \in InputFiles : CallState(inp)

\* The variables the single-command variant has no use for.
qunused == <<cvars, lvars, aborted, variant, round, prevNoGain, gsProbe, ran, firstMin, tied,
             gsAvailable, idx, probes, inputAtCall, minSeen, zeroDivisor>>

\* Up to the first await: the existence test, the size of the input, and the
\* spawn of `qpdf --version`. A missing input throws into the catch block,
\* which finds nothing at outputPath and rethrows.
QStart ==
  /\ pc = "start"
  /\ IF ~ExistsSync(fs, InputPath)
     THEN /\ pc' = "raised"
          /\ UNCHANGED <<originalSize, hangs>>
     ELSE /\ originalSize' = fs[InputPath].size
          /\ hangs' \in BOOLEAN
          /\ pc' = "q_probe"
  /\ UNCHANGED <<fs, bestResult, qpdfAvailable, qpdfProbe, execOk, execs,
                 finalOp>>
  /\ UNCHANGED qunused

\* The probe answers false: fallbackCompress copies the input to outputPath
\* and its result is returned.
QProbeUnavailable ==
  /\ pc = "q_probe"
  /\ ~hangs
  /\ \E o \in ProbeOutcomes :
       /\ ~IsQpdfAvailable(o).value
       /\ qpdfProbe' = o
       /\ qpdfAvailable' = IsQpdfAvailable(o).value
  /\ fs' = CopyFileSync(fs, InputPath, OutputPath)
  /\ bestResult' = QpdfFallbackResult(GetFileSize(fs, InputPath))
  /\ finalOp' = "copy"
  /\ pc' = "returned"
  /\ UNCHANGED <<originalSize, hangs, execOk, execs>>
  /\ UNCHANGED qunused

\* The probe answers false and copyFileSync throws (disk full, permissions):
\* the catch block unlinks what is at outputPath and rethrows.
QFallbackCopyFails ==
  /\ pc = "q_probe"
  /\ ~hangs
  /\ \E o \in ProbeOutcomes :
       /\ ~IsQpdfAvailable(o).value
       /\ qpdfProbe' = o
       /\ qpdfAvailable' = IsQpdfAvailable(o).value
  /\ fs' = UnlinkIfExists(fs, OutputPath)
  /\ pc' = "raised"
  /\ UNCHANGED <<originalSize, bestResult, hangs, execOk, execs, finalOp>>
  /\ UNCHANGED qunused

\* The probe answers true: the qpdf command is spawned with outputPath as its
\* output file; execAsync is called without a timeout.
QProbeAvailable ==
  /\ pc = "q_probe"
  /\ ~hangs
  /\ \E o \in ProbeOutcomes :
       /\ IsQpdfAvailable(o).value
       /\ qpdfProbe' = o
       /\ qpdfAvailable' = IsQpdfAvailable(o).value
  /\ execs' = execs + 1
  /\ hangs' \in BOOLEAN
  /\ pc' = "q_exec"
  /\ UNCHANGED <<fs, originalSize, bestResult, execOk, finalOp>>
  /\ UNCHANGED qunused

\* qpdf exits with status 0, having written outputPath (or nothing).
QExecResolves ==
  /\ pc = "q_exec"
  /\ ~hangs
  /\ \E w \in QpdfOutputs : fs' = [fs EXCEPT ![OutputPath] = w]
  /\ execOk' = TRUE
  /\ pc' = "q_settled"
  /\ UNCHANGED <<originalSize, bestResult, qpdfAvailable, qpdfProbe, hangs,
                 execs, finalOp>>
  /\ UNCHANGED qunused

\* qpdf exits with an error, possibly after writing part of outputPath.
QExecRejects ==
  /\ pc = "q_exec"
  /\ ~hangs
  /\ \E w \in PartialFiles : fs' = [fs EXCEPT ![OutputPath] = w]
  /\ execOk' = FALSE
  /\ pc' = "q_settled"
  /\ UNCHANGED <<originalSize, bestResult, qpdfAvailable, qpdfProbe, hangs,
                 execs, finalOp>>
  /\ UNCHANGED qunused

\* After the await: outputPath exists, its size is read and the result returned.
QReturn ==
  /\ pc = "q_settled"
  /\ execOk
  /\ ExistsSync(fs, OutputPath)
  /\ bestResult' = QpdfResult(originalSize, GetFileSize(fs, OutputPath))
  /\ pc' = "returned"
  /\ UNCHANGED <<fs, originalSize, qpdfAvailable, qpdfProbe, hangs, execOk,
                 execs, finalOp>>
  /\ UNCHANGED qunused

\* The catch block: after a rejected command or a missing output it unlinks
\* outputPath if it exists and throws 'PDF compression failed: ...'.
QCatch ==
  /\ pc = "q_settled"
  /\ ~execOk \/ ~ExistsSync(fs, OutputPath)
  /\ fs' = UnlinkIfExists(fs, OutputPath)
  /\ pc' = "raised"
  /\ UNCHANGED <<originalSize, bestResult, qpdfAvailable, qpdfProbe, hangs,
                 execOk, execs, finalOp>>
  /\ UNCHANGED qunused

QNext ==
  \/ QStart
  \/ QProbeUnavailable
  \/ QFallbackCopyFails
  \/ QProbeAvailable
  \/ QExecResolves
  \/ QExecRejects
  \/ QReturn
  \/ QCatch

SpecQpdf == QInit /\ [][QNext]_vars

\* C12: every successful result has 0 <= compressedSize <= originalSize and a
\* compressionRatio that is a number in [0, 100], in the single-command qpdf
\* variant as in the multi-strategy pipeline.
C12_RatioInRange ==
  (Returned /\ bestResult.success) =>
    /\ 0 <= bestResult.compressedSize
    /\ bestResult.compressedSize <= bestResult.originalSize
    /\ bestResult.compressionRatio.den > 0
    /\ 0 <= bestResult.compressionRatio.num
    /\ bestResult.compressionRatio.num <= 100 * bestResult.compressionRatio.den

\* C16: no strategy writes outputPath: while the call is in progress nothing,
\* complete or partial, is at outputPath, and every candidate path differs
\* from inputPath and from outputPath.
C16_OutputOnlyAtFinalize ==
  /\ ~Terminated => ~ExistsSync(fs, OutputPath)
  /\ \A n \in StrategyNames : TempOutput(n) \notin {InputPath, OutputPath}

\* ------------------------------------------------ the server under two requests
\* POST /compress handled for two uploads at once. Node runs one continuation
\* at a time: a step of a request is what runs between two awaits, and the
\* subprocesses of the two requests run side by side. The probes answer what
\* the host has installed.

\* Negation of the loop's skip test, for the tools the host has.
HostAvailable(s) == IF s.tool = "qpdf" THEN host.qpdf ELSE host.gs

\* The position of the first strategy from k on that the loop does not skip.
NextAvailable(k) ==
  LET c == {j \in k..Len(ConcCatalog) : HostAvailable(ConcCatalog[j])}
  IN  IF c = {} THEN Len(ConcCatalog) + 1
      ELSE CHOOSE j \in c : \A i \in c : j <= i

\* let bestResult = { success: false, outputPath: inputPath, ... }
ConcInitialBest(r) ==
  [success |-> FALSE, outputPath |-> UploadPath(r),
   compressedSize |-> UploadSize, strategy |-> "None"]

\* The files after the selector's decision on the candidate at `tmp`.
ConcAfterSelection(f, best, inp, tmp, cs) ==
  IF Replaces(cs, best)
  THEN IF best.outputPath # inp /\ ExistsSync(f, best.outputPath)
       THEN UnlinkSync(f, best.outputPath)
       ELSE f
  ELSE UnlinkIfExists(f, tmp)

\* The finalize step of compressPDF: rename the best candidate to outputPath,
\* or copy the input there; either throws when its source is gone.
ConcFinalize(f, best, inp, out) ==
  IF best.success /\ best.outputPath # out
  THEN IF ExistsSync(f, best.outputPath)
       THEN [threw |-> FALSE, disk |-> RenameSync(f, best.outputPath, out),
             result |-> [best EXCEPT !.outputPath = out]]
       ELSE [threw |-> TRUE, disk |-> f, result |-> best]
  ELSE IF ~best.success
  THEN IF ExistsSync(f, inp)
       THEN [threw |-> FALSE, disk |-> CopyFileSync(f, inp, out),
             result |-> [success |-> TRUE, outputPath |-> out,
                         compressedSize |-> UploadSize, strategy |-> "None"]]
       ELSE [threw |-> TRUE, disk |-> f, result |-> best]
  ELSE [threw |-> FALSE, disk |-> f, result |-> best]

\* now - stats.mtime.getTime() > maxAge, with maxAge in minutes: every file
\* the sweep meets was last written at least a millisecond before it, and the
\* uploads of the requests in `old` more than six minutes before.
OlderThan(p, maxAgeMinutes, old) ==
  IF maxAgeMinutes = 0 THEN TRUE ELSE \E r \in old : p = UploadPath(r)

\* cleanupFiles(directory, maxAgeHours): unlink every file of the directory
\* that is older than maxAge.
CleanupFiles(f, dir, maxAgeMinutes, old) ==
  [p \in ConcPaths |->
     IF Dirname(p) = dir /\ ExistsSync(f, p) /\ OlderThan(p, maxAgeMinutes, old)
     THEN NoFile
     ELSE f[p]]

\* The route after a successful compressPDF: cleanupFiles(path.dirname(inputPath), 0.1)
RouteSuccess(f, r, old) == CleanupFiles(f, Dirname(UploadPath(r)), 6, old)

\* The route's catch block: cleanupFiles(path.dirname(inputPath), 0), then
\* cleanupFiles(path.dirname(outputPath), 0) in one revision and
\* unlinkSync(outputPath) in the other.
RouteError(f, r) ==
  LET swept == CleanupFiles(f, Dirname(UploadPath(r)), 0, {})
  IN  IF route = "part_002"
      THEN CleanupFiles(swept, Dirname(OutputPathOf(r)), 0, {})
      ELSE UnlinkIfExists(swept, OutputPathOf(r))

\* Whether the route throws on the value compressPDF returned:
\* if (!compressionResult.success) throw; and, in one revision,
\* if (compressionResult.compressionRatio === 0) throw.
RouteRejects(result) ==
  \/ ~result.success
  \/ route = "part_003" /\ result.compressedSize = UploadSize

\* The disk once the loop of request r is over with best `best` on disk f:
\* compressPDF finalizes and the route answers, in one run of continuations;
\* `old` are the requests whose upload is more than six minutes old by then.
AfterLoop(f, best, r, old) ==
  LET fin == ConcFinalize(f, best, UploadPath(r), OutputPathOf(r))
      bad == fin.threw \/ RouteRejects(fin.result)
  IN  [pc   |-> IF bad THEN "failed" ELSE "done",
       disk |-> IF bad THEN RouteError(fin.disk, r)
                ELSE RouteSuccess(fin.disk, r, old),
       best |-> fin.result]

\* A request is in flight from its upload until the route has answered.
InFlight(r) == req[r].pc \in {"probing", "exec", "settled"}

\* The files that belong to request r.
FilesOf(r) ==
  {UploadPath(r), OutputPathOf(r)}
    \cup {CandidatePath(OutputPathOf(r), n) : n \in ConcNames}

ConcInit ==
  /\ RouteIdle
  /\ SweepIdle
  /\ variant = "conc"
  /\ round = 1
  /\ prevNoGain = FALSE
  /\ CallState(NoFile)
  /\ cfs = [p \in ConcPaths |-> NoFile]
  /\ req = [r \in Requests |-> NoRequest]
  /\ writers = [p \in ConcPaths |-> {}]
  /\ host \in [qpdf : BOOLEAN, gs : BOOLEAN]
  /\ route \in {"part_002", "part_003"}

\* multer stores the upload and the route calls compressPDF, which runs to
\* its first await (the qpdf probe).
Arrive(r) ==
  /\ req[r].pc = "absent"
  /\ cfs' = [cfs EXCEPT ![UploadPath(r)] = File(UploadSize, "upload")]
  /\ req' = [req EXCEPT ![r] = [NoRequest EXCEPT !.pc = "probing",
                                                 !.best = ConcInitialBest(r)]]
  /\ UNCHANGED <<writers, host, route, svars, lvars>>

\* The probes have answered: the loop skips to the first strategy whose tool
\* is there and spawns its command, or is over at once.
ProbesSettle(r) ==
  /\ req[r].pc = "probing"
  /\ LET k == NextAvailable(1)
     IN  IF k <= Len(ConcCatalog)
         THEN /\ req' = [req EXCEPT ![r].pc = "exec", ![r].idx = k]
              /\ UNCHANGED cfs
         ELSE \E old \in SUBSET Requests :
              LET end == AfterLoop(cfs, req[r].best, r, old)
              IN  /\ req' = [req EXCEPT ![r].pc = end.pc, ![r].idx = k,
                                        ![r].best = end.best]
                  /\ cfs' = end.disk
  /\ UNCHANGED <<writers, host, route, svars, lvars>>

\* The command of request r's strategy exits with status 0, its candidate written.
ProcessResolves(r) ==
  /\ req[r].pc = "exec"
  /\ LET name == ConcCatalog[req[r].idx].name
         tmp  == CandidatePath(OutputPathOf(r), name)
     IN  /\ \E n \in ConcSizes : cfs' = [cfs EXCEPT ![tmp] = File(n, <<r, name>>)]
         /\ writers' = [writers EXCEPT ![tmp] = @ \cup {<<r, name>>}]
  /\ req' = [req EXCEPT ![r].pc = "settled", ![r].execOk = TRUE]
  /\ UNCHANGED <<host, route, svars, lvars>>

\* The strategy commands that have failed so far, over the requests in S.
RECURSIVE Failures(_)
Failures(S) ==
  IF S = {} THEN 0
  ELSE LET r == CHOOSE x \in S : TRUE IN req[r].fails + Failures(S \ {r})

\* The command exits with an error after writing part of its candidate.
ProcessRejects(r) ==
  /\ req[r].pc = "exec"
  /\ Failures(Requests) < MaxConcFailures
  /\ LET name == ConcCatalog[req[r].idx].name
         tmp  == CandidatePath(OutputPathOf(r), name)
     IN  /\ cfs' = [cfs EXCEPT ![tmp] = File(1, "partial")]
         /\ writers' = [writers EXCEPT ![tmp] = @ \cup {<<r, name>>}]
  /\ req' = [req EXCEPT ![r].pc = "settled", ![r].execOk = FALSE,
                        ![r].fails = @ + 1]
  /\ UNCHANGED <<host, route, svars, lvars>>

\* The continuation of the await: the candidate is measured and selected (or
\* the catch block logs), the loop skips to the next strategy whose tool is
\* there and spawns it; when the catalog is through, compressPDF finalizes
\* and the route answers.
Continue(r) ==
  /\ req[r].pc = "settled"
  /\ LET name == ConcCatalog[req[r].idx].name
         tmp  == CandidatePath(OutputPathOf(r), name)
         cs   == GetFileSize(cfs, tmp)
         best == req[r].best
         disk == IF req[r].execOk
                 THEN ConcAfterSelection(cfs, best, UploadPath(r), tmp, cs)
                 ELSE cfs
         next == IF req[r].execOk /\ Replaces(cs, best)
                 THEN [success |-> TRUE, outputPath |-> tmp,
                       compressedSize |-> cs, strategy |-> name]
                 ELSE best
         k    == NextAvailable(req[r].idx + 1)
     IN  IF k <= Len(ConcCatalog)
         THEN /\ req' = [req EXCEPT ![r].pc = "exec", ![r].idx = k,
                                    ![r].best = next]
              /\ cfs' = disk
         ELSE \E old \in SUBSET Requests :
              LET end == AfterLoop(disk, next, r, old)
              IN  /\ req' = [req EXCEPT ![r].pc = end.pc, ![r].idx = k,
                                        ![r].best = end.best]
                  /\ cfs' = end.disk
  /\ UNCHANGED <<writers, host, route, svars, lvars>>

ConcNext ==
  \/ \E r \in Requests : Arrive(r)
  \/ \E r \in Requests : ProbesSettle(r)
  \/ \E r \in Requests : ProcessResolves(r)
  \/ \E r \in Requests : ProcessRejects(r)
  \/ \E r \in Requests : Continue(r)

SpecConc == ConcInit /\ [][ConcNext]_vars

\* C17: two requests in flight together never write to the same candidate
\* path, and neither do two strategies of one request: every path of the
\* compressed directory has had one writer at most, the candidate paths of
\* different (request, strategy) pairs differ, and none is an upload or an
\* output path.
C17_CandidatePathsDisjoint ==
  /\ \A p \in ConcPaths : Cardinality(writers[p]) <= 1
  /\ Cardinality({CandidatePath(OutputPathOf(r), n) : r \in Requests, n \in ConcNames})
       = Cardinality(Requests) * Cardinality(ConcNames)
  /\ \A r1, r2 \in Requests : \A n \in ConcNames :
       CandidatePath(OutputPathOf(r1), n) \notin {UploadPath(r2), OutputPathOf(r2)}

C17_Witness ==
  /\ InFlight("A") /\ InFlight("B")
  /\ writers[CandidatePath(OutputPathOf("A"), "qpdf_aggressive")]
       = {<<"A", "qpdf_aggressive">>}
  /\ writers[CandidatePath(OutputPathOf("B"), "qpdf_aggressive")]
       = {<<"B", "qpdf_aggressive">>}
  /\ ExistsSync(cfs, CandidatePath(OutputPathOf("A"), "qpdf_aggressive"))
  /\ ExistsSync(cfs, CandidatePath(OutputPathOf("B"), "qpdf_aggressive"))

\* Request r has taken the step: each step of a request moves its pc.
Acted(r) == req'[r] # req[r]

\* C18: no step of a request, its success and error cleanup included, deletes
\* or changes the upload, a candidate or the output of another request that
\* is in flight.
C18_NoCrossRequestEffect ==
  [][\A o \in Requests :
       (InFlight(o) /\ ~Acted(o)) =>
         \A p \in FilesOf(o) : cfs'[p] = cfs[p]]_vars

\* compressPDF of request r returned the fallback result to the route:
\* success, the copy of the upload at outputPath, ratio 0.
ReturnedNoGain(r) ==
  /\ req[r].pc \in {"done", "failed"}
  /\ req[r].best.success
  /\ req[r].best.outputPath = OutputPathOf(r)
  /\ req[r].best.compressedSize = UploadSize

\* C21: a request whose compressPDF returned success with ratio 0 is answered
\* as a success and its output file is kept (stated for a request that is
\* alone on the server, so that no other request's cleanup is involved).
C21_NoGainIsSuccessAtHttp ==
  \A r \in Requests :
    (ReturnedNoGain(r) /\ \A o \in Requests \ {r} : req[o].pc = "absent") =>
      /\ req[r].pc = "done"
      /\ ExistsSync(cfs, OutputPathOf(r))

\* The stage of the pipeline a position of the call belongs to.
PcRank(p) ==
  CASE p = "start" -> 0
    [] p = "probe_qpdf" -> 1
    [] p = "probe_gs" -> 2
    [] p \in {"loop", "exec", "settled"} -> 3
    [] OTHER -> 4

C22_ProbesThenStrategies ==
  /\ probes <= 2
  /\ InLoopOrAfter => (probes = 2 /\ qpdfProbe # "none" /\ gsProbe # "none")
  /\ execs = Cardinality(ran)
  /\ \A k \in 1..Len(Catalog) :
       Catalog[k].name \in ran =>
         (k < idx \/ (k = idx /\ pc \in {"exec", "settled"}))

C22_OneOfFallbackAndRename ==
  /\ finalOp # "none" => (Returned /\ idx = Len(Catalog) + 1)
  /\ Returned =>
       /\ finalOp \in {"copy", "rename"}
       /\ finalOp = "copy" <=> firstMin = "None"
       /\ finalOp = "rename" <=> firstMin # "None"

C22_NoStageReentered ==
  round' = round =>
    /\ PcRank(pc') >= PcRank(pc)
    /\ idx' >= idx
    /\ (PcRank(pc) < 3 /\ pc' # pc) => PcRank(pc') > PcRank(pc)
    /\ (pc = "settled" /\ pc' = "loop") => idx' = idx + 1

\* C22: the call goes Start, Probing, Executing(1..N), then Fallback or
\* Finalize, then Done, and re-enters no stage: two probes, both answered
\* before the first strategy; strategies one at a time in catalog order, each
\* once at most; after the last strategy exactly one of copy (iff no strategy
\* became best) and rename (iff one did).
C22_PipelineOrder ==
  /\ [](C22_ProbesThenStrategies /\ C22_OneOfFallbackAndRename)
  /\ [][C22_NoStageReentered]_vars

C22_Witness ==
  /\ Returned
  /\ finalOp = "rename"
  /\ probes = 2
  /\ execs = Len(Catalog)
  /\ variant = "rev1"

\* C23: between two strategy executions one candidate file of the request at
\* most is on disk, and it is the file of the current best: a candidate that
\* did not replace the best was deleted at once, and so was the previous best
\* when it was replaced.
C23_OnlyTheBestCandidateOnDisk ==
  (InLoopOrAfter /\ pc = "loop") =>
    \A n \in StrategyNames :
      ExistsSync(fs, TempOutput(n)) =>
        (bestResult.success /\ bestResult.outputPath = TempOutput(n))

\* The same for the candidates the selector has measured (those of commands
\* that resolved).
C23_MeasuredCandidates ==
  (InLoopOrAfter /\ pc = "loop") =>
    \A n \in StrategyNames :
      fs[TempOutput(n)].data = n =>
        (bestResult.success /\ bestResult.outputPath = TempOutput(n))

\* The sentinel of "no strategy": the strategy field the synthetic best starts
\* with in both revisions (the "none" of the interface, up to its capital).
CanonicalSentinel == InitialBest(0).strategy

\* C24: the strategy field tells the fallback from a compression with one
\* sentinel: it is the sentinel iff the output is the copy of the input, and
\* a catalog name iff the output is that strategy's candidate renamed; every
\* path through the fallback reports the same value.
C24_OneSentinel ==
  Returned =>
    /\ finalOp = "copy" <=> bestResult.strategy = CanonicalSentinel
    /\ finalOp = "rename" <=> bestResult.strategy \in CatalogNames

\* ------------------------------------------------------- the client goes away
\* The client disconnects while its request is being compressed. The routes
\* register no 'close' or 'aborted' listener, compressPDF takes no signal and
\* keeps no handle on its subprocesses: nothing in the program reacts.
ClientAborts ==
  /\ pc \in {"probe_qpdf", "probe_gs", "loop", "exec", "settled"}
  /\ ~aborted
  /\ aborted' = TRUE
  /\ UNCHANGED <<cvars, lvars, variant, round, prevNoGain, hangs, qpdfProbe, gsProbe,
                 ran, firstMin, tied, fs, pc, originalSize, bestResult,
                 qpdfAvailable, gsAvailable, idx, execOk, probes, execs,
                 inputAtCall, minSeen, finalOp, zeroDivisor>>

AbortNext == Next \/ ClientAborts

SpecAbort == Init /\ [][AbortNext]_vars

\* C25: once the request is aborted no further strategy is started (and the
\* subprocess in flight is killed and the request's candidates are deleted).
C25_AbortStopsThePipeline ==
  [][(aborted /\ round' = round) => execs' = execs]_vars

\* The strategy loop is running (its state between and within iterations).
InStrategyLoop == InLoopOrAfter /\ pc \in {"loop", "exec", "settled"}

C26_BestIsConsistent ==
  InStrategyLoop =>
    /\ bestResult.success <=> bestResult.outputPath # InputPath
    /\ bestResult.success <=> bestResult.compressedSize < originalSize
    /\ bestResult.success <=> bestResult.strategy \in CatalogNames
    /\ bestResult.success => bestResult.compressedSize > 0
    /\ bestResult.originalSize = originalSize

C26_BestNeverGrows ==
  (InStrategyLoop /\ InStrategyLoop') =>
    bestResult'.compressedSize <= bestResult.compressedSize

\* C26: throughout the strategy loop the running best is a success iff its
\* outputPath is not inputPath iff its compressedSize is below originalSize
\* iff its strategy is a catalog name; its compressedSize never grows and is
\* positive once it is a success.
C26_RunningBestInvariant ==
  /\ []C26_BestIsConsistent
  /\ [][C26_BestNeverGrows]_vars

C26_Witness ==
  /\ pc = "exec"
  /\ bestResult.success
  /\ bestResult.strategy = "qpdf_aggressive"
  /\ bestResult.compressedSize = 1
  /\ idx = Len(Catalog)

\* C27: the file of the current best is on disk, with the size the best
\* records, from its adoption until it is superseded or renamed: the loop
\* deletes it no earlier, so the rename at finalize finds its source.
C27_BestFileOnDisk ==
  (InStrategyLoop /\ bestResult.success) =>
    /\ ExistsSync(fs, bestResult.outputPath)
    /\ fs[bestResult.outputPath]
         = File(bestResult.compressedSize, bestResult.strategy)

C27_Witness ==
  /\ LoopDone
  /\ TakesRename(bestResult)
  /\ bestResult.strategy = Catalog[1].name
  /\ execs = Len(Catalog)
  /\ ExistsSync(fs, bestResult.outputPath)

\* ------------------------------------------- one request to the end of its files
\* POST /compress followed from the call of compressPDF until nothing more
\* will touch the request's files: the route's cleanup, the transfer of the
\* output in the variants that send it in the response, the delayed cleanup,
\* and the server's hourly sweep.  compressPDF settles as the specifications
\* above found it to settle.

\* The followed request.
Followed == "A"

\* The revisions of the route: two answer with JSON and a downloadUrl, one
\* pipes a read stream of the output into the response, one calls
\* res.download.
JsonVariants == {"part_002", "part_003"}

StreamVariant == "part_004"

DownloadVariant == "routes/compress.js"

RouteVariants == JsonVariants \cup {StreamVariant, DownloadVariant}

\* The revisions that send the output file in the response.
SendingVariants == {StreamVariant, DownloadVariant}

\* The strategies whose failed command may have left a partial candidate
\* that compressPDF did not delete: one of each tool.
LeftoverNames == {ConcCatalog[1].name, ConcCatalog[2].name}

\* The disk when compressPDF settles: the candidates in `left` hold partial
\* files and `out` is the file at outputPath.
SettledDisk(f, left, out) ==
  [p \in ConcPaths |->
     IF p = OutputPathOf(Followed) THEN out
     ELSE IF \E n \in left : p = CandidatePath(OutputPathOf(Followed), n)
     THEN File(1, "partial")
     ELSE f[p]]

\* cleanupFiles(filePaths) of the single-command variant: each path is
\* unlinked if it exists, each in its own try/catch.
CleanupList(f, paths) ==
  [p \in ConcPaths |-> IF p \in paths THEN NoFile ELSE f[p]]

\* const filesToCleanup = [inputPath, outputPath]
FilesToCleanup == {UploadPath(Followed), OutputPathOf(Followed)}

\* The hourly sweep of server.js: [uploadsDir, outputDir].forEach(dir => ...)
SweptDirs == {"uploads", "output"}

\* The sweep once every file left is more than an hour old: each file of the
\* two directories is unlinked.
HourlySweep(f) ==
  [p \in ConcPaths |-> IF Dirname(p) \in SweptDirs THEN NoFile ELSE f[p]]

\* The route's catch block in each revision.
RouteCatch(f) ==
  IF route = DownloadVariant
  THEN CleanupList(f, FilesToCleanup)
  ELSE RouteError(f, Followed)

\* The route after compressPDF returned `result`, up to the end of the
\* handler's synchronous code: the catch block when the route throws on the
\* result; otherwise the sweep of old uploads (not in the res.download
\* revision) and the answer, which is complete for JSON and begins the
\* transfer of the file otherwise.
AfterCompress(f, result, old) ==
  IF RouteRejects(result)
  THEN [disk |-> RouteCatch(f), stage |-> "answered"]
  ELSE IF route \in JsonVariants
  THEN [disk |-> RouteSuccess(f, Followed, old), stage |-> "answered"]
  ELSE IF route = StreamVariant
  THEN [disk |-> RouteSuccess(f, Followed, old), stage |-> "sending"]
  ELSE [disk |-> f, stage |-> "sending"]

\* Mutant: the res.download callback cleans up at once on success too.
AfterTransferCleansAtOnce(f, err) ==
  IF route = DownloadVariant
  THEN [disk |-> CleanupList(f, FilesToCleanup), stage |-> "answered"]
  ELSE [disk |-> f, stage |-> IF err THEN "answered" ELSE "delay"]

\* The end of the transfer.  res.download calls back with or without an
\* error: with one it cleans up at once, without one it sets a timer of one
\* second.  The read stream emits 'end' when the file has been read through,
\* and the handler sets the timer; when the transfer breaks off no handler
\* of the route runs.
AfterTransfer(f, err) ==
  IF route = DownloadVariant
  THEN IF err
       THEN [disk |-> CleanupList(f, FilesToCleanup), stage |-> "answered"]
       ELSE [disk |-> f, stage |-> "delay"]
  ELSE [disk |-> f, stage |-> IF err THEN "answered" ELSE "delay"]

\* The timer's callback: cleanupFiles(filesToCleanup) after res.download,
\* if (fs.existsSync(outputPath)) fs.unlinkSync(outputPath) after the stream.
AfterDelay(f) ==
  IF route = DownloadVariant
  THEN CleanupList(f, FilesToCleanup)
  ELSE UnlinkIfExists(f, OutputPathOf(Followed))

\* multer has stored the upload and the route has called compressPDF.
RouteInit ==
  /\ SweepIdle
  /\ variant = "route"
  /\ round = 1
  /\ prevNoGain = FALSE
  /\ CallState(NoFile)
  /\ cfs = [[p \in ConcPaths |-> NoFile]
              EXCEPT ![UploadPath(Followed)] = File(UploadSize, "upload")]
  /\ req = [r \in Requests |-> NoRequest]
  /\ writers = [p \in ConcPaths |-> {}]
  /\ host = [qpdf |-> FALSE, gs |-> FALSE]
  /\ route \in RouteVariants
  /\ stage = "compressing"
  /\ sent = "none"
  /\ sweepRan = FALSE

\* The leftovers compressPDF can have: candidates only in the
\* multi-strategy pipeline.
Leftovers == IF route = DownloadVariant THEN {{}} ELSE SUBSET LeftoverNames

\* compressPDF returns a success with its output at outputPath, and the
\* handler runs on to its end.
CompressReturns ==
  /\ stage = "compressing"
  /\ \E n \in ConcSizes, left \in Leftovers, old \in SUBSET {Followed} :
       LET disk == SettledDisk(cfs, left, File(n, "output"))
           result == [success |-> TRUE, outputPath |-> OutputPathOf(Followed),
                      compressedSize |-> n, strategy |-> "any"]
           after == AfterCompress(disk, result, old)
       IN  /\ cfs' = after.disk
           /\ stage' = after.stage
  /\ UNCHANGED <<req, writers, host, route, sent, sweepRan, svars, kvars>>

\* compressPDF throws, with nothing at outputPath, and the catch block runs.
CompressThrows ==
  /\ stage = "compressing"
  /\ \E left \in Leftovers :
       cfs' = RouteCatch(SettledDisk(cfs, left, NoFile))
  /\ stage' = "answered"
  /\ UNCHANGED <<req, writers, host, route, sent, sweepRan, svars, kvars>>

\* The whole file has gone out: res.download calls back without an error,
\* the read stream emits 'end'.
TransferEnds ==
  /\ stage = "sending"
  /\ LET after == AfterTransfer(cfs, FALSE)
     IN  /\ cfs' = after.disk
         /\ stage' = after.stage
  /\ sent' = "complete"
  /\ UNCHANGED <<req, writers, host, route, sweepRan, svars, kvars>>

\* The transfer breaks off (the client disconnects, the file cannot be
\* read): res.download calls back with the error; the piped stream never
\* emits 'end'.
TransferFails ==
  /\ stage = "sending"
  /\ LET after == AfterTransfer(cfs, TRUE)
     IN  /\ cfs' = after.disk
         /\ stage' = after.stage
  /\ sent' = "error"
  /\ UNCHANGED <<req, writers, host, route, sweepRan, svars, kvars>>

\* setTimeout(..., 1000) fires.
TimerFires ==
  /\ stage = "delay"
  /\ cfs' = AfterDelay(cfs)
  /\ stage' = "answered"
  /\ UNCHANGED <<req, writers, host, route, sent, sweepRan, svars, kvars>>

\* The first run of the hourly sweep at which every file the request left
\* is more than an hour old; the runs before it find nothing of the request
\* old enough, the runs after it find what this one left.
SweepFires ==
  /\ stage = "answered"
  /\ ~sweepRan
  /\ cfs' = HourlySweep(cfs)
  /\ sweepRan' = TRUE
  /\ UNCHANGED <<req, writers, host, route, stage, sent, svars, kvars>>

RouteNext ==
  \/ CompressReturns
  \/ CompressThrows
  \/ TransferEnds
  \/ TransferFails
  \/ TimerFires
  \/ SweepFires

SpecRoute == RouteInit /\ [][RouteNext]_vars

\* C28: every file the request put on disk is deleted once the request is
\* over and the hourly sweep has run, on every path and in every revision
\* of the route.
C28_EveryFileEventuallyDeleted ==
  sweepRan => \A p \in FilesOf(Followed) : ~ExistsSync(cfs, p)

\* A step deletes the file at p.
Deletes(p) == ExistsSync(cfs, p) /\ ~ExistsSync(cfs', p)

\* A step of the success path of a revision that sends the file: compressPDF
\* returned and the transfer began, the transfer ended well, or the timer
\* fired.
SuccessStep ==
  /\ route \in SendingVariants
  /\ \/ stage = "compressing" /\ stage' = "sending"
     \/ stage = "sending" /\ sent' = "complete"
     \/ stage = "delay"

\* While the file is being sent it is on disk.
C29_OutputThereWhileSending ==
  (route \in SendingVariants /\ stage = "sending") =>
    ExistsSync(cfs, OutputPathOf(Followed))

\* The output is deleted only by a handler that the end of the transfer
\* started: the timer's callback, or the res.download callback on an error.
C29_OutputDeletedAfterTransfer ==
  (route \in SendingVariants /\ Deletes(OutputPathOf(Followed))) =>
    \/ stage = "delay" /\ sent = "complete"
    \/ stage = "sending" /\ sent' = "error"

\* C29 as stated: in the revisions that send the file the output is never
\* deleted before its transfer has finished, and on the success path the
\* input and the output are deleted only after the additional delay.
C29_DeletedOnlyAfterDelay ==
  /\ []C29_OutputThereWhileSending
  /\ [][C29_OutputDeletedAfterTransfer]_vars
  /\ [][(SuccessStep /\ \E p \in FilesToCleanup : Deletes(p))
          => stage = "delay"]_vars

\* C29 amended: the output is never deleted before its transfer has
\* finished; on the success path the output is deleted only after the
\* additional delay, and so is the input in the res.download revision, while
\* the streaming revision may sweep the input away, if it is more than six
\* minutes old, before the transfer starts.
C29_OutputOnlyAfterDelay ==
  /\ []C29_OutputThereWhileSending
  /\ [][C29_OutputDeletedAfterTransfer]_vars
  /\ [][(SuccessStep /\ Deletes(OutputPathOf(Followed)))
          => stage = "delay"]_vars
  /\ [][(SuccessStep /\ route = DownloadVariant
           /\ Deletes(UploadPath(Followed)))
          => stage = "delay"]_vars

\* The res.download revision has sent the whole file and the timer has
\* deleted input and output.
C29_Witness ==
  /\ route = DownloadVariant
  /\ stage = "answered"
  /\ sent = "complete"
  /\ \A p \in FilesToCleanup : ~ExistsSync(cfs, p)

\* ------------------------------------------------- the age-based cleanupFiles
\* cleanupFiles(directory, maxAgeHours) followed file by file.  An age is
\* now - stats.mtime.getTime(), with `now` read once before the forEach; it
\* is counted in a unit in which maxAge is a whole number.  Other processes
\* may remove files of the directory while the sweep runs.  A file older
\* than every maxAge lies in another directory.

\* The ages a file can have: below, equal to and above any maxAge.
Ages == 0..(MaxAgeUnits + 1)

\* The listings readdirSync can give of the names in S: each name once, in
\* the order of the file system.
Listings(S) ==
  {q \in [1..Cardinality(S) -> S] : \A i, j \in 1..Cardinality(S) :
                                      q[i] = q[j] => i = j}

\* Mutant: a file as old as maxAge is deleted too.
ExpiredOrEqual(age, max) == age >= max

\* if (now - stats.mtime.getTime() > maxAge)
Expired(age, max) == age > max

\* Mutant: cleanupFiles without its try/catch.
OnThrowPropagates == "raised"

\* catch (error) { console.error('Cleanup error:', error); }
OnThrow == "caught"

CleanupInit ==
  /\ ConcIdle
  /\ RouteIdle
  /\ variant = "cleanup"
  /\ round = 1
  /\ prevNoGain = FALSE
  /\ CallState(NoFile)
  /\ directory \in [FileNames -> {Absent} \cup Ages]
  /\ outside = MaxAgeUnits + 1
  /\ maxAge \in 0..MaxAgeUnits
  /\ files = <<>>
  /\ fileIdx = 0
  /\ sweepPc = "called"
  /\ dirAtCall = directory
  /\ examined = {}
  /\ unlinked = {}

\* const files = fs.readdirSync(directory)
Readdir ==
  /\ sweepPc = "called"
  /\ files' \in Listings({n \in FileNames : directory[n] # Absent})
  /\ fileIdx' = 1
  /\ sweepPc' = "each"
  /\ UNCHANGED <<directory, outside, maxAge, dirAtCall, examined, unlinked,
                 svars, cvars, rvars>>

\* readdirSync throws (the directory is missing or unreadable).
ReaddirThrows ==
  /\ sweepPc = "called"
  /\ sweepPc' = OnThrow
  /\ UNCHANGED <<directory, outside, maxAge, files, fileIdx, dirAtCall,
                 examined, unlinked, svars, cvars, rvars>>

\* One call of the forEach callback: statSync, the age test, unlinkSync.
\* statSync throws when the file is gone; unlinkSync may throw.
Examine ==
  /\ sweepPc = "each"
  /\ fileIdx <= Len(files)
  /\ examined' = examined \cup {files[fileIdx]}
  /\ LET file == files[fileIdx]
     IN  IF directory[file] = Absent
         THEN /\ sweepPc' = OnThrow
              /\ UNCHANGED <<directory, unlinked, fileIdx>>
         ELSE IF Expired(directory[file], maxAge)
         THEN \/ /\ directory' = [directory EXCEPT ![file] = Absent]
                 /\ unlinked' = unlinked \cup {file}
                 /\ fileIdx' = fileIdx + 1
                 /\ sweepPc' = sweepPc
              \/ /\ sweepPc' = OnThrow
                 /\ UNCHANGED <<directory, unlinked, fileIdx>>
         ELSE /\ fileIdx' = fileIdx + 1
              /\ UNCHANGED <<directory, unlinked, sweepPc>>
  /\ UNCHANGED <<outside, maxAge, files, dirAtCall, svars, cvars, rvars>>

\* The forEach is over and cleanupFiles returns.
CleanupReturns ==
  /\ sweepPc = "each"
  /\ fileIdx > Len(files)
  /\ sweepPc' = "returned"
  /\ UNCHANGED <<directory, outside, maxAge, files, fileIdx, dirAtCall,
                 examined, unlinked, svars, cvars, rvars>>

\* Another process removes a file of the directory that the sweep has yet
\* to examine.
RemovedConcurrently ==
  /\ sweepPc = "each"
  /\ \E j \in fileIdx..Len(files), n \in FileNames :
       /\ n = files[j]
       /\ directory[n] # Absent
       /\ directory' = [directory EXCEPT ![n] = Absent]
  /\ UNCHANGED <<outside, maxAge, files, fileIdx, sweepPc, dirAtCall,
                 examined, unlinked, svars, cvars, rvars>>

CleanupNext ==
  \/ Readdir
  \/ ReaddirThrows
  \/ Examine
  \/ CleanupReturns
  \/ RemovedConcurrently

SpecCleanup == CleanupInit /\ [][CleanupNext]_vars

\* What cleanupFiles has unlinked was, at the call, older than maxAge; the
\* call has not raised; after a failure the files later in the listing have
\* not been examined.
C30_SweepState ==
  /\ \A n \in unlinked : dirAtCall[n] > maxAge
  /\ sweepPc \in {"called", "each", "caught", "returned"}
  /\ sweepPc = "caught" =>
       \A j \in 1..Len(files) : j > fileIdx => files[j] \notin examined

\* A step of cleanupFiles changes at most the file it is at, by deleting it,
\* never a file outside the directory; once it has failed or returned
\* nothing changes any more.
C30_SweepStep ==
  /\ outside' = outside
  /\ examined' # examined =>
       \/ directory' = directory /\ unlinked' = unlinked
       \/ /\ directory' = [directory EXCEPT ![files[fileIdx]] = Absent]
          /\ unlinked' = unlinked \cup {files[fileIdx]}
  /\ sweepPc \in {"caught", "returned"} =>
       directory' = directory /\ examined' = examined

\* C30: the age-based cleanupFiles deletes a file only if its age is above
\* maxAge, leaves younger files and files outside the directory untouched,
\* never raises to its caller, and stops at the first file whose
\* examination fails, leaving the later files of the listing unexamined.
C30_CleanupFilesContract ==
  /\ []C30_SweepState
  /\ [][C30_SweepStep]_vars

\* The sweep deleted a file, failed at the next, and left a file older than
\* maxAge unexamined.
C30_Witness ==
  /\ sweepPc = "caught"
  /\ unlinked # {}
  /\ \E j \in 1..Len(files) :
       /\ j > fileIdx
       /\ directory[files[j]] # Absent
       /\ directory[files[j]] > maxAge
  /\ outside > maxAge

====
